---- MODULE Spec2Model ----
(***************************************************************************)
(* Derivative-cache request pipeline of the image-optimization repository. *)
(*                                                                         *)
(* The repository holds seven Lambda handlers, all exported as `handler`:  *)
(*   ImageProxy    src/functions/image-optimization/index.ts:117           *)
(*   ImageOps      src/unnamed/part_004:13                                 *)
(*   ImageQuery    src/unnamed/part_004:193                                *)
(*   VideoProxy    src/functions/video-thumbnail/index.ts:207              *)
(*   VideoRedirect src/functions/video-thumbnail/index.ts:465              *)
(*   VideoProject  src/functions/video-thumbnail/index.mjs:128             *)
(*   VideoPlain    src/functions/video-thumbnail/index.mjs:319             *)
(* One of them is deployed (chosen in Init); requests run concurrently in  *)
(* the slots of Reqs against one object store.  A handler runs atomically  *)
(* between two awaited calls (store call, transform, decode), so there is  *)
(* one action per awaited call.                                            *)
(*                                                                         *)
(* Strings that the code splits or concatenates are kept in split form: a  *)
(* path is the sequence of its '/'-separated segments, so "" is <<"">>,    *)
(* "geerly" is <<"geerly">> and "geerly/" is <<"geerly", "">>.             *)
(***************************************************************************)
EXTENDS Integers, Sequences, FiniteSets, TLC

VARIABLES deployed, env, store, req, tmp

vars == <<deployed, env, store, req, tmp>>

----------------------------------------------------------------------------
(* Configuration *)

Handlers == {"ImageProxy", "ImageOps", "ImageQuery",
             "VideoProxy", "VideoRedirect", "VideoProject", "VideoPlain"}

ImageHandlers == {"ImageProxy", "ImageOps", "ImageQuery"}
VideoHandlers == Handlers \ ImageHandlers

\* the execution environments of the deployed function: each runs one
\* invocation of the handler at a time and has its own /tmp, which it keeps
\* from one invocation to the next; requests in flight at the same time are
\* in different environments
Reqs == {"r1", "r2"}

\* the environments in use: two for the video handlers, whose concurrent
\* requests meet on derivative keys, one for the image handlers
Slots(h) == IF h \in {"ImageProxy", "ImageOps", "ImageQuery"} THEN {"r1"} ELSE Reqs

\* project -> source bucket
PROJECT_BUCKETS ==
    [p \in {"geerly", "farmify", "sopilot"} |->
        CASE p = "geerly"  -> "geerly-cms-content"
          [] p = "farmify" -> "files-farmify"
          [] p = "sopilot" -> "files-sopilot"]

\* names every JavaScript object inherits from Object.prototype
ProtoKeys == {"constructor"}

\* process.env of the image handler with operations in the path
ORIGINAL_IMAGE_BUCKET == "geerly-cms-content"
TRANSFORMED_BUCKET == "transformed"
\* process.env.thumbnailBucketName
THUMBNAIL_BUCKET == "thumbnails-bucket"

\* process.env.maxImageSize, scaled down: artifact sizes are counted in
\* units such that the limit is MaxImageSize units
MaxImageSize == 2

Sizes == (MaxImageSize - 1) .. (MaxImageSize + 1)

Buckets == {PROJECT_BUCKETS[p] : p \in DOMAIN PROJECT_BUCKETS}
             \cup {TRANSFORMED_BUCKET, THUMBNAIL_BUCKET}

----------------------------------------------------------------------------
(* Strings in split form *)

EmptyStr == <<"">>

\* Array.prototype.join('/') of a list of segments, in split form
Join(parts) == IF parts = <<>> THEN EmptyStr ELSE parts

\* a + '/' + b, in split form
Slash(a, b) == a \o b

\* JavaScript truthiness of a string
Truthy(s) == s # EmptyStr

\* the string a split form stands for, as a template literal prints it
RECURSIVE Text(_)
Text(segs) ==
    IF segs = <<>> THEN ""
    ELSE IF Len(segs) = 1 THEN segs[1]
    ELSE segs[1] \o "/" \o Text(Tail(segs))

\* A storage key: the '/'-separated segments, the optional serialized
\* operations appended after a '/', and the suffixes appended to the whole
Key(segs, opsPart, suf) == [segs |-> segs, ops |-> opsPart, suf |-> suf]

PlainKey(segs) == Key(segs, <<>>, <<>>)

\* key + '.jpg', for a key without operations: the text is appended to the
\* last segment, so that a/b + '.jpg' is the key a/b.jpg
Jpg(key) == [key EXCEPT !.segs = [@ EXCEPT ![Len(@)] = @ \o ".jpg"]]

----------------------------------------------------------------------------
(* Operations: ordered mappings name -> value, as JavaScript objects are *)

Front(s) == SubSeq(s, 1, Len(s) - 1)

HasKey(m, k) == \E i \in DOMAIN m : m[i][1] = k

\* obj[k] = v : a new key is appended, an existing key keeps its place
SetEntry(m, k, v) ==
    IF HasKey(m, k)
    THEN [i \in DOMAIN m |-> IF m[i][1] = k THEN <<k, v>> ELSE m[i]]
    ELSE Append(m, <<k, v>>)

\* Object.fromEntries(list of [k, v])
RECURSIVE FromEntries(_)
FromEntries(s) ==
    IF s = <<>> THEN <<>>
    ELSE SetEntry(FromEntries(Front(s)), s[Len(s)][1], s[Len(s)][2])

\* obj[k], "undefined" when absent
Lookup(m, k) ==
    IF HasKey(m, k) THEN m[CHOOSE i \in DOMAIN m : m[i][1] = k][2]
    ELSE "undefined"

\* the operations as a set of name/value pairs, order forgotten
AsSet(m) == {m[i] : i \in DOMAIN m}

----------------------------------------------------------------------------
(* Numbers read from the request *)

Undefined == [tag |-> "undefined", n |-> 0]
NaN == [tag |-> "NaN", n |-> 0]
Num(n) == [tag |-> "number", n |-> n]

\* parseInt of the values the requests carry
ParseInt(v) ==
    CASE v = "0"   -> Num(0)
      [] v = "1"   -> Num(1)
      [] v = "80"  -> Num(80)
      [] v = "100" -> Num(100)
      [] v = "101" -> Num(101)
      [] v = "300" -> Num(300)
      [] OTHER     -> NaN

\* JavaScript truthiness of a number or undefined
TruthyNum(x) == x.tag = "number" /\ x.n # 0

\* `params.k ? parseInt(params.k) : undefined`
OptInt(m, k) ==
    IF HasKey(m, k) /\ Lookup(m, k) # "" THEN ParseInt(Lookup(m, k)) ELSE Undefined

----------------------------------------------------------------------------
(* The object store (S3) *)

\* the width in pixels of every source image
SourceWidth == 400

\* what an object holds: the source object it comes from, its encoding, the
\* operations of the request it was made for, its size in bytes, the
\* request that produced it, and its width in pixels
Blob(of, fmt, ops, size, by) ==
    [of |-> of, fmt |-> fmt, ops |-> ops, size |-> size, by |-> by,
     width |-> SourceWidth]

Min(a, b) == IF a < b THEN a ELSE b

\* sharp's resize(width, height, {fit: 'inside', withoutEnlargement: true})
\* when width or height is truthy: the image is never made wider
ResizeInside(blob, width) ==
    IF TruthyNum(width) THEN [blob EXCEPT !.width = Min(width.n, @)] ELSE blob

\* sharp's resize({width}) of a valid width: the image gets that width
ResizeTo(blob, width) == [blob EXCEPT !.width = width.n]

NoBlob == [Blob("none", "none", <<>>, 0, "none") EXCEPT !.width = 0]

SourceBlob(name, fmt) == Blob(name, fmt, <<>>, MaxImageSize + 1, "upload")

Obj(bucket, key, body) == [bucket |-> bucket, key |-> key, body |-> body]

\* the source objects: "a" (a PNG) and "s" (an SVG) of project geerly, and
\* the same object under the key that the handlers without project routing
\* look up
SourceObjects ==
    { Obj("geerly-cms-content", PlainKey(<<"a">>), SourceBlob("a", "png")),
      Obj("geerly-cms-content", PlainKey(<<"s">>), SourceBlob("s", "svg")),
      Obj("geerly-cms-content", PlainKey(<<"a.jpg">>), SourceBlob("a.jpg", "jpeg")),
      Obj("geerly-cms-content", PlainKey(<<"geerly", "a">>), SourceBlob("a", "png")) }

Has(st, bucket, key) == \E o \in st : o.bucket = bucket /\ o.key = key

BodyAt(st, bucket, key) ==
    (CHOOSE o \in st : o.bucket = bucket /\ o.key = key).body

\* faults the store may answer any call with, besides "object absent"
Faults == {"none", "NoSuchBucket", "AccessDenied", "InternalError"}

Ok(body) == [ok |-> TRUE, name |-> "none", body |-> body]
Err(name) == [ok |-> FALSE, name |-> name, body |-> NoBlob]

\* s3Client.send(new GetObjectCommand({Bucket, Key}))
GetObject(st, bucket, key, fault) ==
    IF fault # "none" THEN Err(fault)
    ELSE IF bucket \notin Buckets THEN Err("InternalError")
    ELSE IF Has(st, bucket, key) THEN Ok(BodyAt(st, bucket, key))
    ELSE Err("NoSuchKey")

\* s3Client.send(new HeadObjectCommand({Bucket, Key}))
HeadObject(st, bucket, key, fault) ==
    IF fault # "none" THEN Err(fault)
    ELSE IF bucket \notin Buckets THEN Err("InternalError")
    ELSE IF Has(st, bucket, key) THEN Ok(NoBlob)
    ELSE Err("NotFound")

\* s3Client.send(new PutObjectCommand({Bucket, Key, Body})): the outcome
PutObject(bucket, fault) ==
    IF fault # "none" THEN Err(fault)
    ELSE IF bucket \notin Buckets THEN Err("InternalError")
    ELSE Ok(NoBlob)

\* what a request records of a call it made: the call and its outcome
Mark(call, out) ==
    {call, call \o ":" \o (IF out.ok THEN "ok" ELSE out.name)}

\* variant of Stored in which the first write of a key wins
StoredIfAbsent(st, bucket, key, body) ==
    IF Has(st, bucket, key) THEN st ELSE st \cup {Obj(bucket, key, body)}

\* the store after a put that succeeded
Stored(st, bucket, key, body) ==
    {o \in st : ~(o.bucket = bucket /\ o.key = key)} \cup {Obj(bucket, key, body)}

----------------------------------------------------------------------------
(* Responses *)

NoLoc == [host |-> "none", key |-> PlainKey(<<>>), query |-> <<>>]

Location(host, key, query) == [host |-> host, key |-> key, query |-> query]

\* a handler's result: status 0 stands for an exception that leaves the
\* handler; detail is the internal error text copied into the body
Response(status, msg, detail, loc, ctype, body) ==
    [status |-> status, msg |-> msg, detail |-> detail, loc |-> loc,
     ctype |-> ctype, body |-> body]

NoResp == Response(-1, "none", "none", NoLoc, "none", NoBlob)

ErrorResponse(status, msg) == Response(status, msg, "none", NoLoc, "none", NoBlob)

ErrorDetail(status, msg, detail) ==
    Response(status, msg, detail, NoLoc, "none", NoBlob)

Inline(ctype, body) == Response(200, "none", "none", NoLoc, ctype, body)

\* variant of Redirect that answers 200 and keeps the Location
RedirectAs200(loc) == Response(200, "none", "none", loc, "none", NoBlob)

Redirect(loc) == Response(302, "none", "none", loc, "none", NoBlob)

Uncaught(detail) == Response(0, "exception", detail, NoLoc, "none", NoBlob)

----------------------------------------------------------------------------
(* Requests *)

Methods == {"GET", "POST"}

\* the x-origin-verify header: the marker, another value, or no header
Origins == {"cloudfront", "spoofed", "absent"}

\* the request paths after their leading '/', in split form: no path, a
\* project alone, a project and an empty remainder, the objects "a" and "s"
\* of project geerly, "b", which no bucket holds, and object "a" under an
\* unknown project, a name inherited from Object.prototype and no project
Paths == {EmptyStr, <<"geerly">>, <<"geerly", "">>, <<"geerly", "a">>,
          <<"geerly", "s">>, <<"geerly", "b">>, <<"nope", "a">>,
          <<"constructor", "a">>, <<"", "a">>, <<"geerly", "a.jpg">>,
          <<"geerly", "..", "a">>, <<"GEERLY", "a">>}

GoodPath == <<"geerly", "a">>

W300 == <<"width", "300">>
FWebp == <<"format", "webp">>

\* the operations of a request, in the order the request gives them
OpsInputs == {<<>>, <<W300, FWebp>>, <<FWebp, W300>>, <<<<"q", "101">>>>}

\* one operation
Op(k, v) == <<<<k, v>>>>

\* the quality values of the requests: around both ends of [1,100], and
\* one that is no number
Qualities == {"0", "1", "100", "101", "abc"}

\* the operations each image handler understands, besides OpsInputs: w and
\* q for ImageProxy; width, quality and format for ImageQuery and ImageOps
\* (for ImageOps only operations its transform rejects)
MoreOps(h) ==
    CASE h = "ImageProxy" ->
           {Op("q", v) : v \in Qualities} \cup {Op("w", "300"), Op("w", "abc")}
      [] h = "ImageQuery" ->
           {Op("quality", v) : v \in Qualities}
             \cup {Op("width", "abc"), Op("format", "bmp")}
      [] h = "ImageOps" ->
           {<<FWebp, <<"quality", v>>>> : v \in {"0", "101"}}
             \cup {Op("width", "abc"), Op("format", "bmp")}
      [] OTHER -> {}

\* the operations are read from the trailing path segment by ImageOps and
\* from the query string by the other image handlers; video has none
OpsOf(h) == IF h \in ImageHandlers THEN OpsInputs \cup MoreOps(h) ELSE {<<>>}

\* only ImageOps looks at the method
MethodsOf(h) == IF h = "ImageOps" THEN Methods ELSE {"GET"}

Event(method, origin, segs, ops) ==
    [method |-> method, origin |-> origin, segs |-> segs, ops |-> ops]

\* the events a handler is invoked with: every path, every operation list
\* on a good path, and every method and origin header on a good path and
\* on the empty path
\* the paths of the requests to handler h: an object whose name ends in
\* '.jpg' is asked of the redirecting video handler only, an upper-case
\* project name of the handler that lower-cases it only
PathsOf(h) ==
    {s \in Paths : /\ s = <<"geerly", "a.jpg">> => h = "VideoRedirect"
                   /\ s = <<"GEERLY", "a">> => h = "VideoProject"}

Events(h) ==
    {Event("GET", "cloudfront", s, <<>>) : s \in PathsOf(h)}
      \cup {Event("GET", "cloudfront", GoodPath, q) : q \in OpsOf(h)}
      \cup {Event(m, o, s, <<>>) : m \in MethodsOf(h), o \in Origins,
                                   s \in {GoodPath, EmptyStr}}

\* the events of environment r: requests meet only on the good path, so the
\* second environment serves it once the first has, and the first serves
\* every event until then
GoodEvent == Event("GET", "cloudfront", GoodPath, <<>>)

EventsOf(h, r) ==
    IF r = "r1"
    THEN IF req["r2"].pc = "idle" THEN Events(h) ELSE {GoodEvent}
    ELSE IF req["r1"].ev = GoodEvent THEN {GoodEvent} ELSE {}

\* the sizes of the artifacts: around the limit for the image handlers; a
\* video thumbnail is one bounded-resolution frame, of one size
SizesOf(h) == IF h \in ImageHandlers THEN Sizes ELSE {MaxImageSize}

\* a request: its event, what the handler has computed so far (source
\* bucket, object path, operations, fetched or computed blob, content
\* type), the calls it has made (did), whether its derivative was in the
\* store when it started (cached), whether a request for the same path and
\* operations had completed with a successful write before (after), and
\* its response
Request(pc, ev, bucket, path, ops, blob, ctype, did, cached, after, resp) ==
    [pc |-> pc, ev |-> ev, bucket |-> bucket, path |-> path, ops |-> ops,
     blob |-> blob, ctype |-> ctype, did |-> did, cached |-> cached,
     after |-> after, resp |-> resp]

NoEvent == Event("GET", "absent", EmptyStr, <<>>)

Idle == Request("idle", NoEvent, "none", EmptyStr, <<>>, NoBlob, "none", {},
                FALSE, FALSE, NoResp)

\* the handler returns
Finished(ev, did, resp) ==
    Request("done", ev, "none", EmptyStr, <<>>, NoBlob, "none", did, FALSE, FALSE, resp)

\* the handler of request r returns resp
Return(r, did, resp) ==
    req' = [req EXCEPT ![r] = [@ EXCEPT !.pc = "done", !.did = did, !.resp = resp]]

\* the handler of request r returns resp for the artifact art
Deliver(r, did, art, resp) ==
    req' = [req EXCEPT ![r] =
              [@ EXCEPT !.pc = "done", !.did = did, !.blob = art, !.resp = resp]]

\* a slot in use is free when no request is in flight in it
Free(r) == r \in Slots(deployed) /\ req[r].pc \in {"idle", "done"}

\* PROJECT_BUCKETS[projectName]: the bucket, undefined, or a member
\* inherited from Object.prototype, which is truthy and no bucket name
BucketOf(projectName) ==
    IF projectName \in DOMAIN PROJECT_BUCKETS THEN PROJECT_BUCKETS[projectName]
    ELSE IF projectName \in ProtoKeys THEN "[inherited]"
    ELSE "undefined"

\* String.prototype.toLowerCase on the project names of the requests
ToLowerCase(p) == IF p = "GEERLY" THEN "geerly" ELSE p

\* /tmp of an environment: the files in it, and whether the close listener
\* of an ffmpeg child still has its unlink calls to make
Files(names, unlink) == [files |-> names, unlink |-> unlink]

NoFiles == Files({}, FALSE)

\* variant of EnvironmentOf in which every invocation runs in one environment
EnvironmentShared(r) == "r1"

\* the execution environment, and so the /tmp, of invocation r: the function
\* runs each of its concurrent invocations in an environment of its own
EnvironmentOf(r) == r

Init ==
    /\ deployed \in Handlers
    /\ env \in IF deployed = "ImageOps"
               THEN {[transformed |-> TRANSFORMED_BUCKET], [transformed |-> "undefined"]}
               ELSE {[transformed |-> "undefined"]}
    /\ store = SourceObjects
    /\ req = [r \in Reqs |-> Idle]
    /\ tmp = [r \in Reqs |-> NoFiles]

----------------------------------------------------------------------------
(* ImageProxy: src/functions/image-optimization/index.ts *)

\* parseRequest of the handlers behind a {proxy+} route: null, or the
\* project name and the object path
ParseProxy(segs) ==
    IF ~Truthy(segs) \/ Len(segs) < 2 THEN [ok |-> FALSE, project |-> "", path |-> EmptyStr]
    ELSE IF segs[1] = "" \/ ~Truthy(Join(Tail(segs)))
         THEN [ok |-> FALSE, project |-> "", path |-> EmptyStr]
         ELSE [ok |-> TRUE, project |-> segs[1], path |-> Join(Tail(segs))]

\* handler, up to the first awaited call
ImageProxyStart(r) ==
    /\ deployed = "ImageProxy"
    /\ Free(r)
    /\ \E ev \in EventsOf(deployed, r) :
         LET p == ParseProxy(ev.segs)
             bucket == BucketOf(p.project)
         IN  req' = [req EXCEPT ![r] =
               IF ev.origin # "cloudfront"
               THEN Finished(ev, {}, ErrorResponse(403, "Access denied"))
               ELSE IF ~p.ok
               THEN Finished(ev, {}, ErrorResponse(400, "Invalid request format"))
               ELSE IF bucket = "undefined"
               THEN Finished(ev, {}, ErrorResponse(404, "Project not found"))
               ELSE Request("fetch", ev, bucket, p.path, ev.ops, NoBlob, "none", {},
                            FALSE, FALSE, NoResp)]
    /\ UNCHANGED <<deployed, env, store, tmp>>

\* the catch block of the handler: the response for a thrown error message
ImageProxyCatch(message) ==
    CASE message = "STORAGE_CONFIG_ERROR" -> ErrorResponse(503, "Storage configuration error")
      [] message = "ACCESS_DENIED"        -> ErrorResponse(403, "Access denied to image storage")
      [] message = "UNSUPPORTED_FORMAT"   -> ErrorResponse(415, "Unsupported image format")
      [] message = "INVALID_QUALITY"      ->
           ErrorResponse(400, "Invalid quality parameter (must be between 1 and 100)")
      [] message = "OPTIMIZATION_FAILED"  -> ErrorResponse(500, "Failed to optimize image")
      [] OTHER                            -> ErrorResponse(500, "Internal server error")

\* getImageFromS3: "null", the message of the error it throws, or "ok"
GetImageFromS3(out) ==
    IF out.ok THEN "ok"
    ELSE IF out.name \in {"NoSuchKey", "NotFound"} THEN "null"
    ELSE IF out.name = "NoSuchBucket" THEN "STORAGE_CONFIG_ERROR"
    ELSE IF out.name = "AccessDenied" THEN "ACCESS_DENIED"
    ELSE out.name

\* handler: await getImageFromS3(bucket, imagePath)
ImageProxyFetch(r) ==
    /\ deployed = "ImageProxy"
    /\ req[r].pc = "fetch"
    /\ \E fault \in Faults :
         LET out == GetObject(store, req[r].bucket, PlainKey(req[r].path), fault)
             got == GetImageFromS3(out)
             did == req[r].did \cup Mark("get", out)
         IN  IF got = "ok"
             THEN req' = [req EXCEPT ![r] =
                            [@ EXCEPT !.pc = "transform", !.blob = out.body, !.did = did]]
             ELSE IF got = "null"
             THEN Return(r, did, ErrorResponse(404, "Image not found"))
             ELSE Return(r, did, ImageProxyCatch(got))
    /\ UNCHANGED <<deployed, env, store, tmp>>

\* optimizeImage: the message of the error it throws, or "ok"; decodes
\* tells whether sharp can read the buffer
OptimizeImage(blob, quality, decodes) ==
    LET outputQuality == IF TruthyNum(quality) THEN quality.n ELSE 80
    IN  IF ~decodes THEN "OPTIMIZATION_FAILED"
        ELSE IF blob.fmt \notin {"jpeg", "png", "webp", "gif"} THEN "UNSUPPORTED_FORMAT"
        ELSE IF outputQuality < 1 \/ outputQuality > 100 THEN "INVALID_QUALITY"
        ELSE "ok"

\* handler: await optimizeImage(...) and the response
ImageProxyTransform(r) ==
    /\ deployed = "ImageProxy"
    /\ req[r].pc = "transform"
    /\ \E decodes \in BOOLEAN, size \in SizesOf(deployed) :
         LET q == req[r].ops
             res == OptimizeImage(req[r].blob, OptInt(q, "q"), decodes)
             did == req[r].did \cup {"transform", "transform:" \o res}
             art == ResizeInside(Blob(req[r].blob.of, req[r].blob.fmt, q, size, r),
                                 OptInt(q, "w"))
         IN  IF res = "ok"
             THEN Deliver(r, did, art, Inline("image/jpeg", art))
             ELSE Return(r, did, ImageProxyCatch(res))
    /\ UNCHANGED <<deployed, env, store, tmp>>

----------------------------------------------------------------------------
(* ImageOps: src/unnamed/part_004, the handler with operations in the path *)

\* the output formats sharp's toFormat accepts
SharpFormats == {"jpeg", "png", "webp", "gif", "avif", "tiff"}

\* ContentType of a stored object
ContentTypeOf(fmt) == IF fmt = "svg" THEN "image/svg+xml" ELSE "image/" \o fmt

\* the key the transformed image is stored under:
\* imagePath + '/' + Object.entries(operations).map(k=v).join(',')
ImageOpsKey(imagePath, operations) == Key(imagePath, <<operations>>, <<>>)

\* the Location of the redirect:
\* '/' + imagePath + '?' + Object.entries(operations).map(k=v).join(',')
ImageOpsLocation(imagePath, operations) ==
    Location("", PlainKey(imagePath), operations)

\* a request for the same path and operations has completed after its
\* derivative was written
AfterWrite(ev) ==
    \E q \in Reqs : /\ req[q].pc = "done"
                    /\ "put:ok" \in req[q].did
                    /\ req[q].ev.segs = ev.segs
                    /\ req[q].ev.ops = ev.ops

\* handler, up to the first awaited call
ImageOpsStart(r) ==
    /\ deployed = "ImageOps"
    /\ Free(r)
    /\ \E ev \in EventsOf(deployed, r) :
         LET hasOps == ev.ops # <<>>
             pathParts == IF hasOps /\ ev.segs = EmptyStr THEN <<>> ELSE ev.segs
             operations == FromEntries(ev.ops)
             imagePath == Join(pathParts)
         IN  req' = [req EXCEPT ![r] =
               IF ev.method # "GET"
               THEN Finished(ev, {}, ErrorDetail(400, "Only GET method is supported", "event"))
               ELSE IF ev.origin # "cloudfront"
               THEN Finished(ev, {}, ErrorDetail(403, "Unauthorized", "Request not from CloudFront"))
               ELSE IF ~hasOps /\ ev.segs = EmptyStr
               THEN Finished(ev, {}, ErrorDetail(400,
                        "Invalid request: no image path provided", "Unknown error"))
               ELSE IF ~Truthy(imagePath)
               THEN Finished(ev, {}, ErrorDetail(400,
                        "Invalid request: no image path after operations", "Unknown error"))
               ELSE Request("fetch", ev, ORIGINAL_IMAGE_BUCKET, imagePath, operations,
                            NoBlob, "none", {},
                            Has(store, env.transformed, ImageOpsKey(imagePath, operations)),
                            AfterWrite(ev), NoResp)]
    /\ UNCHANGED <<deployed, env, store, tmp>>

\* handler: await s3Client.send(getOriginalImageCommand)
ImageOpsFetch(r) ==
    /\ deployed = "ImageOps"
    /\ req[r].pc = "fetch"
    /\ \E fault \in Faults :
         LET out == GetObject(store, req[r].bucket, PlainKey(req[r].path), fault)
             did == req[r].did \cup Mark("get", out)
         IN  IF out.ok
             THEN req' = [req EXCEPT ![r] =
                            [@ EXCEPT !.pc = "transform", !.blob = out.body,
                                      !.ctype = ContentTypeOf(out.body.fmt), !.did = did]]
             ELSE Return(r, did, ErrorDetail(404, "Image not found: " \o Text(req[r].path), out.name))
    /\ UNCHANGED <<deployed, env, store, tmp>>

\* the transform block of the handler: "uncaught" when sharp cannot read the
\* buffer (metadata() is awaited outside the try), "error" when an operation
\* or the encoding throws, else the output format and content type
ImageOpsTransformed(blob, ctype, operations, decodes, encodes) ==
    LET format == Lookup(operations, "format")
        quality == Lookup(operations, "quality")
        given == HasKey(operations, "format") /\ format # ""
        isLossy == format \notin {"gif", "png"}
        q == ParseInt(quality)
        badQuality == /\ HasKey(operations, "quality") /\ quality # "" /\ isLossy
                      /\ ~(q.tag = "number" /\ q.n >= 1 /\ q.n <= 100)
        contentType ==
            IF given
            THEN IF format \in {"jpeg", "gif", "webp", "png", "avif"}
                 THEN "image/" \o format ELSE "image/jpeg"
            ELSE IF ctype = "image/svg+xml" THEN "image/png" ELSE ctype
        fmt == IF given THEN format ELSE IF blob.fmt = "svg" THEN "png" ELSE blob.fmt
        width == OptInt(operations, "width")
        badWidth == width.tag = "NaN" \/ (width.tag = "number" /\ width.n < 1)
    IN  IF ~decodes THEN [res |-> "uncaught", ctype |-> ctype, fmt |-> "none", width |-> Undefined]
        ELSE IF badWidth \/ (given /\ (format \notin SharpFormats \/ badQuality)) \/ ~encodes
        THEN [res |-> "error", ctype |-> contentType, fmt |-> "none", width |-> Undefined]
        ELSE [res |-> "ok", ctype |-> contentType, fmt |-> fmt, width |-> width]

\* ImageOpsDeliver with the size compared by >= instead of >
ImageOpsDeliverOffByOne(art, ctype, uploaded, loc) ==
    LET imageTooBig == art.size >= MaxImageSize
    IN  IF uploaded /\ imageTooBig THEN Redirect(loc)
        ELSE IF imageTooBig
        THEN ErrorDetail(403, "Requested transformed image is too big", "Unknown error")
        ELSE Inline(ctype, art)

\* ImageOpsDeliver without the final size test: the image is returned
\* whenever no redirect was sent
ImageOpsDeliverNoSizeError(art, ctype, uploaded, loc) ==
    LET imageTooBig == art.size > MaxImageSize
    IN  IF uploaded /\ imageTooBig THEN Redirect(loc) ELSE Inline(ctype, art)

\* the end of the handler: the response once the upload has succeeded,
\* failed or been skipped
ImageOpsDeliver(art, ctype, uploaded, loc) ==
    LET imageTooBig == art.size > MaxImageSize
    IN  IF uploaded /\ imageTooBig THEN Redirect(loc)
        ELSE IF imageTooBig
        THEN ErrorDetail(403, "Requested transformed image is too big", "Unknown error")
        ELSE Inline(ctype, art)

\* handler: the transform block, and the response when no bucket for
\* transformed images is configured
ImageOpsTransform(r) ==
    /\ deployed = "ImageOps"
    /\ req[r].pc = "transform"
    /\ \E decodes \in BOOLEAN, encodes \in BOOLEAN, size \in SizesOf(deployed) :
         LET t == ImageOpsTransformed(req[r].blob, req[r].ctype, req[r].ops, decodes, encodes)
             did == req[r].did \cup {"transform", "transform:" \o t.res}
             made == Blob(req[r].blob.of, t.fmt, req[r].ops, size, r)
             art == IF t.width.tag = "number" THEN ResizeTo(made, t.width) ELSE made
         IN  IF t.res = "uncaught" THEN Return(r, did, Uncaught("sharp"))
             ELSE IF t.res = "error"
             THEN Return(r, did, ErrorDetail(500, "error transforming image", "sharp"))
             ELSE IF env.transformed # "undefined"
             THEN req' = [req EXCEPT ![r] =
                            [@ EXCEPT !.pc = "write", !.blob = art, !.ctype = t.ctype,
                                      !.did = did]]
             ELSE Deliver(r, did, art, ImageOpsDeliver(art, t.ctype, FALSE,
                                         ImageOpsLocation(req[r].path, req[r].ops)))
    /\ UNCHANGED <<deployed, env, store, tmp>>

\* handler: await s3Client.send(putImageCommand), and the response
ImageOpsWrite(r) ==
    /\ deployed = "ImageOps"
    /\ req[r].pc = "write"
    /\ \E fault \in Faults :
         LET key == ImageOpsKey(req[r].path, req[r].ops)
             out == PutObject(env.transformed, fault)
             did == req[r].did \cup Mark("put", out)
         IN  /\ store' = IF out.ok
                         THEN Stored(store, env.transformed, key, req[r].blob)
                         ELSE store
             /\ Return(r, did, ImageOpsDeliver(req[r].blob, req[r].ctype, out.ok,
                                  ImageOpsLocation(req[r].path, req[r].ops)))
    /\ UNCHANGED <<deployed, env, tmp>>

----------------------------------------------------------------------------
(* ImageQuery: src/unnamed/part_004, the handler with project routing and  *)
(* the operations in the query string                                      *)

\* CONFIG.SUPPORTED_FORMATS of config/projects
SUPPORTED_FORMATS == {"jpeg", "png", "webp", "avif"}

\* extractProjectAndPath, and the test the handler makes on its result
ExtractProjectAndPath(segs) ==
    IF Len(segs) < 2 THEN [ok |-> FALSE, project |-> "", path |-> EmptyStr]
    ELSE [ok |-> segs[1] # "" /\ Truthy(Join(Tail(segs))),
          project |-> segs[1], path |-> Join(Tail(segs))]

\* handler, up to the first awaited call
ImageQueryStart(r) ==
    /\ deployed = "ImageQuery"
    /\ Free(r)
    /\ \E ev \in EventsOf(deployed, r) :
         LET p == ExtractProjectAndPath(ev.segs)
             bucketName == BucketOf(p.project)
         IN  req' = [req EXCEPT ![r] =
               IF ~p.ok
               THEN Finished(ev, {}, ErrorResponse(400, "Invalid path format. Expected: {project}/{path/to/image}"))
               ELSE IF bucketName = "undefined"
               THEN Finished(ev, {}, ErrorResponse(404, "Project '" \o p.project \o "' not found"))
               ELSE Request("fetch", ev, bucketName, p.path, ev.ops, NoBlob, "none", {},
                            FALSE, FALSE, NoResp)]
    /\ UNCHANGED <<deployed, env, store, tmp>>

\* handler: await getImageFromS3(bucketName, imagePath), which returns null
\* on every error
ImageQueryFetch(r) ==
    /\ deployed = "ImageQuery"
    /\ req[r].pc = "fetch"
    /\ \E fault \in Faults :
         LET out == GetObject(store, req[r].bucket, PlainKey(req[r].path), fault)
             did == req[r].did \cup Mark("get", out)
         IN  IF out.ok
             THEN req' = [req EXCEPT ![r] =
                            [@ EXCEPT !.pc = "transform", !.blob = out.body, !.did = did]]
             ELSE Return(r, did, ErrorResponse(404, "Image not found: " \o Text(req[r].path)))
    /\ UNCHANGED <<deployed, env, store, tmp>>

\* transformImage: "error" when sharp throws, else the format of the output
TransformImage(params, decodes) ==
    LET requested == Lookup(params, "format")
        format == IF HasKey(params, "format") /\ requested # ""
                     /\ requested \in SUPPORTED_FORMATS
                  THEN requested ELSE "jpeg"
        q == OptInt(params, "quality")
        quality == IF TruthyNum(q) THEN q.n ELSE 80
        badQuality == format # "png" /\ (quality < 1 \/ quality > 100)
    IN  IF ~decodes \/ badQuality THEN "error" ELSE format

\* handler: await transformImage(...) and the response
ImageQueryTransform(r) ==
    /\ deployed = "ImageQuery"
    /\ req[r].pc = "transform"
    /\ \E decodes \in BOOLEAN, size \in SizesOf(deployed) :
         LET params == req[r].ops
             fmt == TransformImage(params, decodes)
             requested == IF HasKey(params, "format") /\ Lookup(params, "format") # ""
                          THEN Lookup(params, "format") ELSE "jpeg"
             did == req[r].did \cup
                      {"transform", IF ~decodes THEN "transform:undecodable"
                                    ELSE IF fmt = "error" THEN "transform:error"
                                    ELSE "transform:ok"}
             art == ResizeInside(Blob(req[r].blob.of, fmt, params, size, r),
                                 OptInt(params, "width"))
         IN  IF fmt = "error"
             THEN Return(r, did, ErrorResponse(500, "Error processing image"))
             ELSE Deliver(r, did, art, Inline("image/" \o requested, art))
    /\ UNCHANGED <<deployed, env, store, tmp>>

----------------------------------------------------------------------------
(* VideoProxy: src/functions/video-thumbnail/index.ts, first handler *)

\* the thumbnail ffmpeg extracts from a video
Thumbnail(video, size, r) == Blob(video.of, "jpeg", <<>>, size, r)

\* what becomes of the ffmpeg child: it exits with code 0, it exits with
\* another code, it cannot be started ('error' event), or it never exits
DecodeOutcomes == {"ok", "exit", "error", "hang"}

\* the calls of a step that ran ffmpeg
DecodeMark(outcome) == {"decode", "decode:" \o outcome}

\* the fixed paths of generateThumbnail of index.ts, under /tmp
tempVideoPath == "temp_video.mp4"

tempThumbnailPath == "temp_thumbnail.jpg"

\* /tmp after generateThumbnail of index.ts settled its promise or hung:
\* writeFile made the video file, ffmpeg the thumbnail when it exits with
\* code 0; the close listener, which runs for every child that ends,
\* settles the promise first and unlinks afterwards
GenerateThumbnailFiles(t, outcome) ==
    Files(t.files \cup {tempVideoPath}
            \cup (IF outcome = "ok" THEN {tempThumbnailPath} ELSE {}),
          t.unlink \/ outcome # "hang")

\* the finally block of the close listener: unlink(tempVideoPath), then
\* unlink(tempThumbnailPath) unless the first call threw
UnlinkTemp(r) ==
    /\ deployed \in {"VideoProxy", "VideoRedirect"}
    /\ tmp[EnvironmentOf(r)].unlink
    /\ tmp' = [tmp EXCEPT ![EnvironmentOf(r)] =
                 Files(IF tempVideoPath \in @.files
                       THEN @.files \ {tempVideoPath, tempThumbnailPath}
                       ELSE @.files,
                       FALSE)]
    /\ UNCHANGED <<deployed, env, store, req>>

\* timeout: Duration.seconds(30) of the functions: the platform ends an
\* invocation whose handler waits on an ffmpeg child that never exits, and
\* answers in the handler's place; /tmp survives or is reset with the
\* environment
FunctionTimeout(r) ==
    /\ deployed \in VideoHandlers
    /\ req[r].pc = "hung"
    /\ Return(r, req[r].did, Uncaught("Task timed out"))
    /\ \E reset \in BOOLEAN :
         tmp' = [tmp EXCEPT ![EnvironmentOf(r)] = IF reset THEN NoFiles ELSE Files(@.files, FALSE)]
    /\ UNCHANGED <<deployed, env, store>>

\* handler, up to the first awaited call
VideoProxyStart(r) ==
    /\ deployed = "VideoProxy"
    /\ Free(r)
    /\ \E ev \in EventsOf(deployed, r) :
         LET p == ParseProxy(ev.segs)
             bucket == BucketOf(p.project)
         IN  req' = [req EXCEPT ![r] =
               IF ~p.ok
               THEN Finished(ev, {}, ErrorResponse(404, "Invalid path format"))
               ELSE IF bucket = "undefined"
               THEN Finished(ev, {}, ErrorResponse(404, "Project not found"))
               ELSE Request("fetch", ev, bucket, p.path, <<>>, NoBlob, "none", {},
                            FALSE, FALSE, NoResp)]
    /\ UNCHANGED <<deployed, env, store, tmp>>

\* the catch block of the handler
VideoProxyCatch(message) ==
    CASE message = "Storage configuration error" ->
           ErrorResponse(503, "Service configuration error")
      [] message = "Access denied to video storage" -> ErrorResponse(403, "Access denied")
      [] OTHER -> ErrorResponse(500, "Internal server error")

\* getVideoFromS3 of the first handler: "null", the message of the error it
\* throws, or "ok"
GetVideoFromS3(out) ==
    IF out.ok THEN "ok"
    ELSE IF out.name \in {"NoSuchKey", "NotFound"} THEN "null"
    ELSE IF out.name = "NoSuchBucket" THEN "Storage configuration error"
    ELSE IF out.name = "AccessDenied" THEN "Access denied to video storage"
    ELSE out.name

\* handler: await getVideoFromS3(bucket, videoPath)
VideoProxyFetch(r) ==
    /\ deployed = "VideoProxy"
    /\ req[r].pc = "fetch"
    /\ \E fault \in Faults :
         LET out == GetObject(store, req[r].bucket, PlainKey(req[r].path), fault)
             got == GetVideoFromS3(out)
             did == req[r].did \cup Mark("get", out)
         IN  IF got = "ok"
             THEN req' = [req EXCEPT ![r] =
                            [@ EXCEPT !.pc = "decode", !.blob = out.body, !.did = did]]
             ELSE IF got = "null"
             THEN Return(r, did, ErrorResponse(404, "Video not found"))
             ELSE Return(r, did, VideoProxyCatch(got))
    /\ UNCHANGED <<deployed, env, store, tmp>>

\* handler: await generateThumbnail(videoData) and the response
VideoProxyDecode(r) ==
    /\ deployed = "VideoProxy"
    /\ req[r].pc = "decode"
    /\ \E outcome \in DecodeOutcomes, size \in SizesOf(deployed) :
         LET did == req[r].did \cup DecodeMark(outcome)
         IN  /\ tmp' = [tmp EXCEPT ![EnvironmentOf(r)] = GenerateThumbnailFiles(@, outcome)]
             /\ IF outcome = "ok"
                THEN Deliver(r, did, Thumbnail(req[r].blob, size, r),
                             Inline("image/jpeg", Thumbnail(req[r].blob, size, r)))
                ELSE IF outcome = "hang"
                THEN req' = [req EXCEPT ![r] = [@ EXCEPT !.pc = "hung", !.did = did]]
                ELSE Return(r, did, VideoProxyCatch("FFmpeg process exited"))
    /\ UNCHANGED <<deployed, env, store>>

----------------------------------------------------------------------------
(* VideoRedirect: src/functions/video-thumbnail/index.ts, second handler *)

\* variant of CheckThumbnailExists that takes every error for an absent object
CheckThumbnailExistsLenient(st, bucket, key, fault) ==
    LET out == HeadObject(st, bucket, Jpg(key), fault)
    IN  IF out.ok THEN "true" ELSE "false"

\* checkThumbnailExists(bucket, key): HeadObject of key + '.jpg'; "true",
\* "false", or the name of the error it rethrows
CheckThumbnailExists(st, bucket, key, fault) ==
    LET out == HeadObject(st, bucket, Jpg(key), fault)
    IN  IF out.ok THEN "true" ELSE IF out.name = "NotFound" THEN "false" ELSE out.name

\* thumbnailKey = `thumbnails/${videoPath}.jpg`
ThumbnailKey(videoPath) == Jpg(PlainKey(Slash(<<"thumbnails">>, videoPath)))

\* redirectUrl = `https://image.boilingkettle.co/${projectName}/${thumbnailKey}${queryString}`
RedirectUrl(projectName, thumbnailKey, query) ==
    Location("image.boilingkettle.co",
             [thumbnailKey EXCEPT !.segs = Slash(<<projectName>>, @)], query)

\* handler, up to the first awaited call
VideoRedirectStart(r) ==
    /\ deployed = "VideoRedirect"
    /\ Free(r)
    /\ \E ev \in EventsOf(deployed, r) :
         LET parts == ev.segs
             projectName == parts[1]
             videoPath == Join(Tail(parts))
             bucketName == BucketOf(projectName)
         IN  req' = [req EXCEPT ![r] =
               IF Len(parts) < 1
               THEN Finished(ev, {}, ErrorResponse(400, "Invalid path format. Expected: {project}/path/to/video"))
               ELSE IF bucketName = "undefined"
               THEN Finished(ev, {}, ErrorResponse(404, "Project '" \o projectName \o "' not found"))
               ELSE Request("probe", ev, bucketName, videoPath, ev.ops, NoBlob, "none", {},
                            Has(store, bucketName, ThumbnailKey(videoPath)),
                            AfterWrite(ev), NoResp)]
    /\ UNCHANGED <<deployed, env, store, tmp>>

\* the catch block of the handler
VideoRedirectCatch == ErrorResponse(500, "Error processing video")

\* handler: await checkThumbnailExists(bucketName, thumbnailKey), and the
\* redirect when the thumbnail exists
VideoRedirectProbe(r) ==
    /\ deployed = "VideoRedirect"
    /\ req[r].pc = "probe"
    /\ \E fault \in Faults :
         LET thumbnailKey == ThumbnailKey(req[r].path)
             thumbnailExists == CheckThumbnailExists(store, req[r].bucket, thumbnailKey, fault)
             did == req[r].did \cup {"head", "head:" \o thumbnailExists}
         IN  IF thumbnailExists = "true"
             THEN Return(r, did, Redirect(RedirectUrl(req[r].ev.segs[1], thumbnailKey,
                                                      req[r].ops)))
             ELSE IF thumbnailExists = "false"
             THEN req' = [req EXCEPT ![r] = [@ EXCEPT !.pc = "fetch", !.did = did]]
             ELSE Return(r, did, VideoRedirectCatch)
    /\ UNCHANGED <<deployed, env, store, tmp>>

\* variant of VideoRedirectFetch that does not wait for the probe
VideoRedirectFetchUnordered(r) ==
    /\ deployed = "VideoRedirect"
    /\ req[r].pc \in {"probe", "fetch"}
    /\ \E fault \in Faults :
         LET out == GetObject(store, req[r].bucket, PlainKey(req[r].path), fault)
             did == req[r].did \cup Mark("get", out)
         IN  IF out.ok
             THEN req' = [req EXCEPT ![r] =
                            [@ EXCEPT !.pc = "decode", !.blob = out.body, !.did = did]]
             ELSE IF out.name = "NoSuchKey"
             THEN Return(r, did, ErrorResponse(404, "Video not found: " \o Text(req[r].path)))
             ELSE Return(r, did, VideoRedirectCatch)
    /\ UNCHANGED <<deployed, env, store, tmp>>

\* handler: await getVideoFromS3(bucketName, videoPath), which returns null
\* for NoSuchKey and rethrows every other error
VideoRedirectFetch(r) ==
    /\ deployed = "VideoRedirect"
    /\ req[r].pc = "fetch"
    /\ \E fault \in Faults :
         LET out == GetObject(store, req[r].bucket, PlainKey(req[r].path), fault)
             did == req[r].did \cup Mark("get", out)
         IN  IF out.ok
             THEN req' = [req EXCEPT ![r] =
                            [@ EXCEPT !.pc = "decode", !.blob = out.body, !.did = did]]
             ELSE IF out.name = "NoSuchKey"
             THEN Return(r, did, ErrorResponse(404, "Video not found: " \o Text(req[r].path)))
             ELSE Return(r, did, VideoRedirectCatch)
    /\ UNCHANGED <<deployed, env, store, tmp>>

\* handler: await generateThumbnail(videoData)
VideoRedirectDecode(r) ==
    /\ deployed = "VideoRedirect"
    /\ req[r].pc = "decode"
    /\ \E outcome \in DecodeOutcomes, size \in SizesOf(deployed) :
         LET did == req[r].did \cup DecodeMark(outcome)
         IN  /\ tmp' = [tmp EXCEPT ![EnvironmentOf(r)] = GenerateThumbnailFiles(@, outcome)]
             /\ IF outcome = "ok"
                THEN req' = [req EXCEPT ![r] =
                               [@ EXCEPT !.pc = "write", !.did = did,
                                         !.blob = Thumbnail(req[r].blob, size, r)]]
                ELSE IF outcome = "hang"
                THEN req' = [req EXCEPT ![r] = [@ EXCEPT !.pc = "hung", !.did = did]]
                ELSE Return(r, did, VideoRedirectCatch)
    /\ UNCHANGED <<deployed, env, store>>

\* handler: await s3Client.send(new PutObjectCommand({Bucket: bucketName,
\* Key: thumbnailKey, ...})), and the redirect
VideoRedirectWrite(r) ==
    /\ deployed = "VideoRedirect"
    /\ req[r].pc = "write"
    /\ \E fault \in Faults :
         LET thumbnailKey == ThumbnailKey(req[r].path)
             out == PutObject(req[r].bucket, fault)
             did == req[r].did \cup Mark("put", out)
         IN  /\ store' = IF out.ok
                         THEN Stored(store, req[r].bucket, thumbnailKey, req[r].blob)
                         ELSE store
             /\ IF out.ok
                THEN Return(r, did, Redirect(RedirectUrl(req[r].ev.segs[1], thumbnailKey,
                                                         req[r].ops)))
                ELSE Return(r, did, VideoRedirectCatch)
    /\ UNCHANGED <<deployed, env, tmp>>

----------------------------------------------------------------------------
(* VideoProject and VideoPlain: src/functions/video-thumbnail/index.mjs.   *)
(* Both run probe, cached read or download, ffmpeg, upload and read-back;  *)
(* VideoProject routes by project, VideoPlain reads one source bucket.     *)

\* getProjectBucket of index.mjs: PROJECT_BUCKETS[projectName.toLowerCase()]
GetProjectBucket(projectName) == BucketOf(ToLowerCase(projectName))

\* the outer catch block of both handlers: error.statusCode || 500, where
\* the errors of the store client and of ffmpeg carry no statusCode
ThumbnailCatch(detail) == ErrorDetail(500, "Error generating thumbnail", detail)

\* the thumbnail key, before '.jpg' is appended: `${projectName}/${videoPath}`
\* for VideoProject, the whole path for VideoPlain
DerivativeName(h, segs) ==
    IF h = "VideoProject" THEN Slash(<<segs[1]>>, Join(Tail(segs))) ELSE segs

\* handler of VideoProject, up to the first awaited call
VideoProjectStart(r) ==
    /\ deployed = "VideoProject"
    /\ Free(r)
    /\ \E ev \in EventsOf(deployed, r) :
         LET projectName == ev.segs[1]
             pathParts == Tail(ev.segs)
             sourceBucket == GetProjectBucket(projectName)
             videoPath == Join(pathParts)
         IN  req' = [req EXCEPT ![r] =
               IF projectName = "" \/ Len(pathParts) = 0
               THEN Finished(ev, {}, ErrorDetail(400, "Invalid request",
                                        "Path must be in format: /{project}/{video_path}"))
               ELSE IF sourceBucket = "undefined"
               THEN Finished(ev, {}, ErrorDetail(400, "Invalid project", "Invalid project"))
               ELSE Request("probe", ev, sourceBucket, videoPath, <<>>, NoBlob, "none", {},
                            Has(store, THUMBNAIL_BUCKET,
                                Jpg(PlainKey(DerivativeName(deployed, ev.segs)))),
                            AfterWrite(ev), NoResp)]
    /\ UNCHANGED <<deployed, env, store, tmp>>

\* handler of VideoPlain, up to the first awaited call: the path is always
\* present, and is the video key
VideoPlainStart(r) ==
    /\ deployed = "VideoPlain"
    /\ Free(r)
    /\ \E ev \in EventsOf(deployed, r) :
         req' = [req EXCEPT ![r] =
                   Request("probe", ev, ORIGINAL_IMAGE_BUCKET, ev.segs, <<>>, NoBlob,
                           "none", {},
                           Has(store, THUMBNAIL_BUCKET,
                               Jpg(PlainKey(DerivativeName(deployed, ev.segs)))),
                           AfterWrite(ev), NoResp)]
    /\ UNCHANGED <<deployed, env, store, tmp>>

\* the response of both handlers with a thumbnail read from the bucket
ThumbnailResponse(body) == Inline("image/jpeg", body)

\* path.basename(key): the file of the video under /tmp; '' names no file
Basename(segs) == segs[Len(segs)]

\* videoLocalPath and thumbnailLocalPath = `${videoLocalPath}.jpg`
LocalPaths(segs) ==
    IF Basename(segs) = "" THEN {} ELSE {Basename(segs), Basename(segs) \o ".jpg"}

\* await checkThumbnailExists(thumbnailBucket, name)
ThumbnailProbe(r) ==
    /\ deployed \in {"VideoProject", "VideoPlain"}
    /\ req[r].pc = "probe"
    /\ \E fault \in Faults :
         LET name == PlainKey(DerivativeName(deployed, req[r].ev.segs))
             thumbnailExists == CheckThumbnailExists(store, THUMBNAIL_BUCKET, name, fault)
             did == req[r].did \cup {"head", "head:" \o thumbnailExists}
         IN  IF thumbnailExists = "true"
             THEN req' = [req EXCEPT ![r] = [@ EXCEPT !.pc = "cached", !.did = did]]
             ELSE IF thumbnailExists = "false"
             THEN req' = [req EXCEPT ![r] = [@ EXCEPT !.pc = "download", !.did = did]]
             ELSE Return(r, did, ThumbnailCatch(thumbnailExists))
    /\ UNCHANGED <<deployed, env, store, tmp>>

\* await getThumbnail(thumbnailBucket, name), after a probe that found the
\* thumbnail or after the upload, then cleanup(videoLocalPath,
\* thumbnailLocalPath) after the upload, and the response
ThumbnailRead(r) ==
    /\ deployed \in {"VideoProject", "VideoPlain"}
    /\ req[r].pc \in {"cached", "readback"}
    /\ \E fault \in Faults :
         LET name == PlainKey(DerivativeName(deployed, req[r].ev.segs))
             out == GetObject(store, THUMBNAIL_BUCKET, Jpg(name), fault)
             did == req[r].did \cup Mark("getthumbnail", out)
         IN  /\ tmp' = IF out.ok /\ req[r].pc = "readback"
                       THEN [tmp EXCEPT ![EnvironmentOf(r)] =
                               Files(@.files \ LocalPaths(req[r].path), @.unlink)]
                       ELSE tmp
             /\ IF out.ok
                THEN Return(r, did, ThumbnailResponse(out.body))
                ELSE Return(r, did, ThumbnailCatch(out.name))
    /\ UNCHANGED <<deployed, env, store>>

\* await downloadVideo(sourceBucket, videoPath): createWriteStream makes the
\* local file before the object is asked for
ThumbnailDownload(r) ==
    /\ deployed \in {"VideoProject", "VideoPlain"}
    /\ req[r].pc = "download"
    /\ \E fault \in Faults :
         LET out == GetObject(store, req[r].bucket, PlainKey(req[r].path), fault)
             did == req[r].did \cup Mark("get", out)
         IN  IF out.ok
             THEN req' = [req EXCEPT ![r] =
                            [@ EXCEPT !.pc = "decode", !.blob = out.body, !.did = did]]
             ELSE Return(r, did, ThumbnailCatch(out.name))
    /\ tmp' = [tmp EXCEPT ![EnvironmentOf(r)] =
                 Files(@.files \cup (LocalPaths(req[r].path) \ {Basename(req[r].path) \o ".jpg"}),
                       @.unlink)]
    /\ UNCHANGED <<deployed, env, store>>

\* await generateThumbnail(videoLocalPath, thumbnailLocalPath); the
\* generateThumbnail of VideoPlain has no listener for 'error', which the
\* child then throws
ThumbnailDecode(r) ==
    /\ deployed \in {"VideoProject", "VideoPlain"}
    /\ req[r].pc = "decode"
    /\ \E outcome \in DecodeOutcomes, size \in SizesOf(deployed) :
         LET did == req[r].did \cup DecodeMark(outcome)
         IN  /\ tmp' = IF outcome = "ok"
                       THEN [tmp EXCEPT ![EnvironmentOf(r)] =
                               Files(@.files \cup LocalPaths(req[r].path), @.unlink)]
                       ELSE tmp
             /\ IF outcome = "ok"
                THEN req' = [req EXCEPT ![r] =
                               [@ EXCEPT !.pc = "upload", !.did = did,
                                         !.blob = Thumbnail(req[r].blob, size, r)]]
                ELSE IF outcome = "hang"
                THEN req' = [req EXCEPT ![r] = [@ EXCEPT !.pc = "hung", !.did = did]]
                ELSE IF outcome = "error" /\ deployed = "VideoPlain"
                THEN Return(r, did, Uncaught("spawn error"))
                ELSE Return(r, did, ThumbnailCatch("ffmpeg process exited"))
    /\ UNCHANGED <<deployed, env, store>>

\* await uploadThumbnail(thumbnailLocalPath, thumbnailBucket, name)
ThumbnailUpload(r) ==
    /\ deployed \in {"VideoProject", "VideoPlain"}
    /\ req[r].pc = "upload"
    /\ \E fault \in Faults :
         LET name == PlainKey(DerivativeName(deployed, req[r].ev.segs))
             out == PutObject(THUMBNAIL_BUCKET, fault)
             did == req[r].did \cup Mark("put", out)
         IN  IF out.ok
             THEN /\ store' = Stored(store, THUMBNAIL_BUCKET, Jpg(name), req[r].blob)
                  /\ req' = [req EXCEPT ![r] = [@ EXCEPT !.pc = "readback", !.did = did]]
             ELSE /\ store' = store
                  /\ Return(r, did, ThumbnailCatch(out.name))
    /\ UNCHANGED <<deployed, env, tmp>>

----------------------------------------------------------------------------

ImageProxyNext ==
    \E r \in Reqs : ImageProxyStart(r) \/ ImageProxyFetch(r) \/ ImageProxyTransform(r)

ImageOpsNext ==
    \E r \in Reqs :
        ImageOpsStart(r) \/ ImageOpsFetch(r) \/ ImageOpsTransform(r) \/ ImageOpsWrite(r)

ImageQueryNext ==
    \E r \in Reqs : ImageQueryStart(r) \/ ImageQueryFetch(r) \/ ImageQueryTransform(r)

VideoProxyNext ==
    \E r \in Reqs :
        \/ VideoProxyStart(r)
        \/ VideoProxyFetch(r)
        \/ VideoProxyDecode(r)
        \/ UnlinkTemp(r)
        \/ FunctionTimeout(r)

VideoRedirectNext ==
    \E r \in Reqs :
        \/ VideoRedirectStart(r)
        \/ VideoRedirectProbe(r)
        \/ VideoRedirectFetch(r)
        \/ VideoRedirectDecode(r)
        \/ VideoRedirectWrite(r)
        \/ UnlinkTemp(r)
        \/ FunctionTimeout(r)

ThumbnailNext ==
    \E r \in Reqs :
        \/ VideoProjectStart(r)
        \/ VideoPlainStart(r)
        \/ ThumbnailProbe(r)
        \/ ThumbnailRead(r)
        \/ ThumbnailDownload(r)
        \/ ThumbnailDecode(r)
        \/ ThumbnailUpload(r)
        \/ FunctionTimeout(r)

Next ==
    \/ ImageProxyNext
    \/ ImageOpsNext
    \/ ImageQueryNext
    \/ VideoProxyNext
    \/ VideoRedirectNext
    \/ ThumbnailNext

\* every handler
Spec == Init /\ [][Next]_vars

\* the image handler with operations in the path, alone
InitImageOps == Init /\ deployed = "ImageOps"

SpecImageOps == InitImageOps /\ [][ImageOpsNext]_vars

\* the image handlers that read the operations from the query string
InitImageQueries == Init /\ deployed \in {"ImageProxy", "ImageQuery"}

ImageQueriesNext == ImageProxyNext \/ ImageQueryNext

SpecImageQueries == InitImageQueries /\ [][ImageQueriesNext]_vars

\* the first video handler of index.ts, alone
InitVideoProxy == Init /\ deployed = "VideoProxy"

SpecVideoProxy == InitVideoProxy /\ [][VideoProxyNext]_vars

\* the second video handler of index.ts, alone
InitVideoRedirect == Init /\ deployed = "VideoRedirect"

SpecVideoRedirect == InitVideoRedirect /\ [][VideoRedirectNext]_vars

\* the two video handlers of index.mjs
InitThumbnail == Init /\ deployed \in {"VideoProject", "VideoPlain"}

SpecThumbnail == InitThumbnail /\ [][ThumbnailNext]_vars

\* the first video handler, whose awaited calls all return and whose
\* invocations the platform ends at the timeout of the function
FairVideoProxy ==
    /\ SpecVideoProxy
    /\ \A r \in Reqs :
          /\ WF_vars(VideoProxyFetch(r))
          /\ WF_vars(VideoProxyDecode(r))
          /\ WF_vars(FunctionTimeout(r))

\* the video handlers
InitVideo == Init /\ deployed \in VideoHandlers

VideoNext == VideoProxyNext \/ VideoRedirectNext \/ ThumbnailNext

SpecVideo == InitVideo /\ [][VideoNext]_vars

\* the video handlers that keep the thumbnails they make
InitVideoCache == Init /\ deployed \in {"VideoRedirect", "VideoProject", "VideoPlain"}

VideoCacheNext == VideoRedirectNext \/ ThumbnailNext

SpecVideoCache == InitVideoCache /\ [][VideoCacheNext]_vars

----------------------------------------------------------------------------
(* Properties *)

Done(r) == req[r].pc = "done"

StoreCalls == {"head", "get", "put", "getthumbnail"}

\* request r has called the store
Touched(r) == req[r].did \cap StoreCalls # {}

\* a store call of request r was answered with a fault
Faulted(r) ==
    \E c \in StoreCalls, f \in Faults \ {"none"} : (c \o ":" \o f) \in req[r].did

\* the handlers that route by project
ProjectRouted == {"ImageProxy", "ImageQuery", "VideoProxy", "VideoRedirect", "VideoProject"}

\* the path of the event names a project and an object path after it
HasObjectPath(ev) ==
    /\ Len(ev.segs) >= 2
    /\ ev.segs[1] # ""
    /\ Truthy(Join(Tail(ev.segs)))

\* request r computed its artifact (req[r].blob)
Computed(r) == "transform:ok" \in req[r].did \/ "decode:ok" \in req[r].did

\* C1: every request without the trusted-edge marker is answered 403,
\* whatever the handler, the path and the method.
C1_UntrustedIs403 ==
    \A r \in Reqs :
        (Done(r) /\ req[r].ev.origin # "cloudfront") => req[r].resp.status = 403

\* C2: every handler that fetches a source object answers 404 when the
\* object is absent, 503 when the bucket is absent, 403 when access is
\* denied and 500 on any other store fault.
C2_FetchTaxonomy ==
    \A r \in Reqs :
        Done(r) =>
            /\ "get:NoSuchKey" \in req[r].did => req[r].resp.status = 404
            /\ "get:NoSuchBucket" \in req[r].did => req[r].resp.status = 503
            /\ "get:AccessDenied" \in req[r].did => req[r].resp.status = 403
            /\ "get:InternalError" \in req[r].did => req[r].resp.status = 500

\* C3: a video request to a known project whose derivative is in the store
\* when it starts is answered with a 302 redirect, and neither fetches the
\* source nor decodes (no store fault occurring).
C3_CachedVideoRedirects ==
    \A r \in Reqs :
        (/\ deployed \in VideoHandlers
         /\ req[r].pc # "idle"
         /\ req[r].cached
         /\ req[r].bucket \in Buckets
         /\ ~Faulted(r))
        => /\ "get" \notin req[r].did
           /\ "decode" \notin req[r].did
           /\ Done(r) => req[r].resp.status = 302

\* C4: once an image request for a path and operations has completed with a
\* successful derivative write, a later request for the same path and
\* operations is answered with a redirect and neither fetches nor
\* transforms (no store fault occurring).
C4_RepeatIsCacheHit ==
    \A r \in Reqs :
        (/\ deployed \in ImageHandlers
         /\ req[r].pc # "idle"
         /\ req[r].after
         /\ ~Faulted(r))
        => /\ "get" \notin req[r].did
           /\ "transform" \notin req[r].did
           /\ Done(r) => req[r].resp.status = 302

\* C5: the derivative key does not depend on the order in which the request
\* gives the operations: the store never holds, for one object path, two
\* keys whose operations are the same set of name=value pairs.
C5_KeyOrderInvariant ==
    \A o1, o2 \in store :
        (/\ o1.bucket = o2.bucket
         /\ o1.key.segs = o2.key.segs
         /\ o1.key.suf = o2.key.suf
         /\ o1.key.ops # <<>>
         /\ o2.key.ops # <<>>
         /\ AsSet(o1.key.ops[1]) = AsSet(o2.key.ops[1]))
        => o1.key = o2.key

C8_WriteFailureNotFatal ==
    \A r \in Reqs :
        (/\ Done(r) /\ Computed(r)
         /\ "put" \in req[r].did /\ "put:ok" \notin req[r].did
         /\ req[r].blob.size <= MaxImageSize)
        => req[r].resp.status = 200 /\ req[r].resp.body = req[r].blob

\* the wordings of the "project not found" message
ProjectNotFound(projectName) ==
    {"Project not found", "Project '" \o projectName \o "' not found"}

\* C9: a request for a project that is not one of the configured projects
\* is answered 404 with a "project not found" message and calls the store
\* at no point.
C9_UnknownProject404 ==
    \A r \in Reqs :
        (/\ deployed \in ProjectRouted
         /\ req[r].pc # "idle"
         /\ req[r].ev.origin = "cloudfront"
         /\ HasObjectPath(req[r].ev)
         /\ req[r].ev.segs[1] \notin DOMAIN PROJECT_BUCKETS)
        => /\ ~Touched(r)
           /\ Done(r) => /\ req[r].resp.status = 404
                         /\ req[r].resp.msg \in ProjectNotFound(req[r].ev.segs[1])

\* C10: a request whose path has no object path after the project is
\* answered 400 and calls the store at no point.
C10_NoObjectPath400 ==
    \A r \in Reqs :
        (/\ deployed \in ProjectRouted
         /\ req[r].pc # "idle"
         /\ req[r].ev.origin = "cloudfront"
         /\ \/ Len(req[r].ev.segs) < 2
            \/ ~Truthy(Join(Tail(req[r].ev.segs))))
        => /\ ~Touched(r)
           /\ Done(r) => req[r].resp.status = 400

\* the names under which a handler reads the numeric operations
NumericKeys(h) ==
    IF h = "ImageProxy" THEN {"w", "h", "q"} ELSE {"width", "height", "quality"}

QualityKey(h) == IF h = "ImageProxy" THEN "q" ELSE "quality"

\* operation k of the event is given, with a value that is not empty
Given(ev, k) == HasKey(ev.ops, k) /\ Lookup(ev.ops, k) # ""

\* the store or the decoder failed request r: a store fault, an absent
\* source, or a source that sharp cannot read or that is of no supported type
Failed(r) ==
    \/ Faulted(r)
    \/ "get:NoSuchKey" \in req[r].did
    \/ req[r].did \cap {"transform:undecodable", "transform:uncaught",
                         "transform:OPTIMIZATION_FAILED",
                         "transform:UNSUPPORTED_FORMAT"} # {}

\* C11: for a present, decodable source of a supported type, a request
\* with an integer quality is answered 200 when the quality lies in
\* [1,100] and 400 (invalid quality) when it does not: 0 and 101 fail, 1
\* and 100 succeed.
C11_QualityBoundary ==
    \A r \in Reqs :
        (/\ Done(r) /\ deployed = "ImageProxy"
         /\ "transform" \in req[r].did /\ ~Failed(r)
         /\ Given(req[r].ev, QualityKey(deployed))
         /\ ParseInt(Lookup(req[r].ev.ops, QualityKey(deployed))).tag = "number")
        => LET quality == ParseInt(Lookup(req[r].ev.ops, QualityKey(deployed))).n
           IN  /\ quality \in 1..100 => req[r].resp.status = 200
               /\ quality \notin 1..100
                    => req[r].resp = ImageProxyCatch("INVALID_QUALITY")

\* C12: a request that gives width, height or quality a value that is not
\* an integer is answered 400 (store and decoder not failing); the value is never dropped or replaced by a
\* default.
C12_NonNumericIs400 ==
    \A r \in Reqs :
        (/\ Done(r) /\ deployed \in ImageHandlers
         /\ req[r].ev.origin = "cloudfront" /\ req[r].ev.method = "GET"
         /\ ~Failed(r)
         /\ \E k \in NumericKeys(deployed) :
               Given(req[r].ev, k) /\ ParseInt(Lookup(req[r].ev.ops, k)).tag = "NaN")
        => req[r].resp.status = 400

\* C13: a request with format=F, F a supported format, and width=W whose
\* source was fetched and transformed is answered 200 with Content-Type
\* image/F, a body encoded in F, and a body no wider than W.
C13_FormatAndWidth ==
    \A r \in Reqs :
        (/\ Done(r) /\ deployed \in {"ImageProxy", "ImageQuery"}
         /\ "get:ok" \in req[r].did /\ "transform:ok" \in req[r].did
         /\ Given(req[r].ev, "format")
         /\ Lookup(req[r].ev.ops, "format") \in SUPPORTED_FORMATS
         /\ Given(req[r].ev, "width")
         /\ ParseInt(Lookup(req[r].ev.ops, "width")).tag = "number")
        => LET F == Lookup(req[r].ev.ops, "format")
               W == ParseInt(Lookup(req[r].ev.ops, "width")).n
           IN  /\ req[r].resp.status = 200
               /\ req[r].resp.ctype = "image/" \o F
               /\ req[r].resp.body.fmt = F
               /\ req[r].resp.body.width <= W

\* C14: a request for an output format outside the supported set, whose
\* source was fetched and can be decoded, is answered 415: never 200 with another format and
\* never 500.
C14_UnsupportedFormat415 ==
    \A r \in Reqs :
        (/\ Done(r) /\ deployed \in {"ImageQuery", "ImageOps"}
         /\ "get:ok" \in req[r].did /\ ~Failed(r)
         /\ Given(req[r].ev, "format")
         /\ Lookup(req[r].ev.ops, "format") \notin SUPPORTED_FORMATS)
        => req[r].resp.status = 415

\* C15: the response to a request that failed after calling the store or
\* the transform carries no internal error text, and two such requests for
\* the same event that end with the same status and message get the same
\* response.
C15_NoInternalDetail ==
    \A r, q \in Reqs :
        (/\ Done(r) /\ Touched(r) /\ req[r].resp.status \notin {200, 302}
         /\ Done(q) /\ Touched(q)
         /\ req[q].ev = req[r].ev
         /\ req[q].resp.status = req[r].resp.status
         /\ req[q].resp.msg = req[r].resp.msg)
        => /\ req[r].resp.detail \in {"none", "Unknown error"}
           /\ req[q].resp = req[r].resp

\* the calls request r makes in a step
NewCalls(r) == req'[r].did \ req[r].did

\* C16: within a request of a video handler that keeps its thumbnails, the
\* steps come one at a time and in order: the probe is the first call, the
\* source is fetched only after the probe found nothing, ffmpeg runs only on
\* a fetched video, the thumbnail is written only after ffmpeg succeeded,
\* and the response is decided after the last call.
C16_StepsInOrder ==
    [][\A r \in Reqs :
          /\ Cardinality(NewCalls(r) \cap (StoreCalls \cup {"decode"})) <= 1
          /\ "head" \in NewCalls(r) => req[r].did = {}
          /\ "get" \in NewCalls(r) =>
                /\ "head:false" \in req[r].did
                /\ req[r].did \cap {"get", "decode", "put"} = {}
          /\ "decode" \in NewCalls(r) =>
                /\ "get:ok" \in req[r].did
                /\ req[r].did \cap {"decode", "put"} = {}
          /\ "put" \in NewCalls(r) =>
                /\ "decode:ok" \in req[r].did
                /\ "put" \notin req[r].did
          /\ Done(r) => NewCalls(r) = {}]_vars

\* a request went through every step: miss, fetch, ffmpeg, write, response
C16_Witness ==
    \E r \in Reqs :
        /\ Done(r)
        /\ {"head:false", "get:ok", "decode:ok", "put:ok"} \subseteq req[r].did
        /\ req[r].resp.status \in {200, 302}
\* request r found no thumbnail, and every call it made succeeded
Unhindered(r) ==
    /\ {"head:false", "get:ok", "decode:ok"} \subseteq req[r].did
    /\ ~Faulted(r)

\* C17: requests that miss on the same key at the same time do not hinder
\* each other: a write that succeeds puts the artifact of its request under
\* the key, whatever another request put there before, nothing else changes
\* the store, and a request whose own calls all succeeded ends with 200 or
\* 302, whatever the other request did.
C17_LastWriteWins ==
    [][/\ \A r \in Reqs :
            "put:ok" \in NewCalls(r) =>
                \E o \in store' :
                    /\ o.body = req[r].blob
                    /\ o.body.by = r
                    /\ store' = {p \in store : ~(p.bucket = o.bucket /\ p.key = o.key)}
                                   \cup {o}
       /\ store' # store => \E r \in Reqs : "put:ok" \in NewCalls(r)
       /\ \A r \in Reqs :
            (req'[r].pc = "done" /\ req[r].pc # "done"
               /\ {"head:false", "get:ok", "decode:ok"} \subseteq req'[r].did
               /\ \A c \in StoreCalls, f \in Faults \ {"none"} :
                      (c \o ":" \o f) \notin req'[r].did)
            => req'[r].resp.status \in {200, 302}]_vars

\* two requests of index.mjs for the same video both found no thumbnail,
\* which they can only when neither had written yet, both wrote and both
\* were answered 200, and the thumbnail bucket holds the artifact of one
C17_Witness ==
    /\ deployed \in {"VideoProject", "VideoPlain"}
    /\ req["r1"].ev = req["r2"].ev
    /\ \A r \in Reqs :
          /\ Done(r)
          /\ Unhindered(r)
          /\ "put:ok" \in req[r].did
          /\ req[r].resp.status = 200
    /\ \E o \in store : o.bucket = THUMBNAIL_BUCKET /\ o.body.by \in Reqs
\* request r is between its event and its response
InFlight(r) == req[r].pc \notin {"idle", "done"}

C19_TempFilesReleased ==
    \A r \in Reqs :
        (deployed \in VideoHandlers /\ Done(r)) => tmp[EnvironmentOf(r)].files = {}
\* C20: a video request whose ffmpeg child never exits is still answered:
\* the child is killed after a bounded wait and the handler answers 500.
C20_HungDecodeIsKilled ==
    \A r \in Reqs :
        (req[r].pc = "hung")
          ~> (Done(r) /\ "decode:hang" \in req[r].did /\ req[r].resp.status = 500)
\* C21: in the video handlers that probe for a stored thumbnail, the probe
\* looks where the writer writes: a request that starts after a request for
\* the same path wrote its thumbnail, and whose probe was answered by the
\* store, finds the thumbnail.
C21_ProbeKeyIsWriteKey ==
    \A r \in Reqs :
        (/\ deployed \in {"VideoRedirect", "VideoProject", "VideoPlain"}
         /\ req[r].after
         /\ "head" \in req[r].did
         /\ ~Faulted(r))
        => "head:true" \in req[r].did
\* C22: a request of the redirecting video handler is answered 302 only
\* when its thumbnail is in the store: the probe found it or the put of the
\* request succeeded, and the object is there under the key of the
\* thumbnail.
C22_RedirectOnlyToStored ==
    \A r \in Reqs :
        (deployed = "VideoRedirect" /\ Done(r) /\ req[r].resp.status = 302)
        => /\ "head:true" \in req[r].did \/ "put:ok" \in req[r].did
           /\ Has(store, req[r].bucket, ThumbnailKey(req[r].path))
\* C23: the probe answers false only when the object it heads is not in the
\* store; when the store fails in another way the request makes no further
\* call, neither fetch nor ffmpeg nor put, and is answered 500.
C23_ProbeErrorIsNotAMiss ==
    [][\A r \in Reqs :
          /\ "head:false" \in NewCalls(r) =>
                ~Has(store,
                     IF deployed = "VideoRedirect" THEN req[r].bucket ELSE THUMBNAIL_BUCKET,
                     Jpg(IF deployed = "VideoRedirect"
                         THEN ThumbnailKey(req[r].path)
                         ELSE PlainKey(DerivativeName(deployed, req[r].ev.segs))))
          /\ (\E f \in Faults \ {"none"} : ("head:" \o f) \in req'[r].did) =>
                /\ req'[r].did \cap {"get", "decode", "put", "getthumbnail"} = {}
                /\ req'[r].pc = "done"
                /\ req'[r].resp.status = 500]_vars

\* a probe failed with an error of the store and the request was answered
\* 500, while the thumbnail it asked about is in the store
C23_Witness ==
    \E r \in Reqs :
        /\ deployed \in {"VideoRedirect", "VideoProject", "VideoPlain"}
        /\ Done(r)
        /\ "head:AccessDenied" \in req[r].did
        /\ req[r].resp.status = 500
        /\ req[r].cached
\* C24: derivatives are written to the derivative buckets only: whatever
\* requests were served, the objects of the other buckets, the source
\* buckets, are those they held at the start.
C24_SourceBucketsUnchanged ==
    {o \in store : o.bucket \notin {TRANSFORMED_BUCKET, THUMBNAIL_BUCKET}} = SourceObjects
\* C25: whatever the store, sharp and ffmpeg answer, a handler that ends
\* (its ffmpeg child not hanging) returns a response with a status code: no
\* exception leaves the handler.
C25_NoRawException ==
    \A r \in Reqs :
        (Done(r) /\ "decode:hang" \notin req[r].did)
        => /\ req[r].resp.msg # "exception"
           /\ req[r].resp.status \in 200 .. 599
\* C26: the Location of a 302 names the derivative that was found or
\* written: in the redirecting video handler the project followed by the
\* key the probe found or the put wrote, in the image handler the object
\* path and the operations of the key the put wrote.
C26_LocationIsDerivative ==
    \A r \in Reqs :
        (Done(r) /\ req[r].resp.status = 302)
        => /\ deployed = "VideoRedirect" /\ "put:ok" \in req[r].did =>
                req[r].resp.loc.key.segs
                  = Slash(<<req[r].ev.segs[1]>>, ThumbnailKey(req[r].path).segs)
           /\ deployed = "VideoRedirect" /\ "head:true" \in req[r].did =>
                req[r].resp.loc.key.segs
                  = Slash(<<req[r].ev.segs[1]>>, Jpg(ThumbnailKey(req[r].path)).segs)
           /\ deployed = "ImageOps" =>
                /\ req[r].resp.loc.key = PlainKey(req[r].path)
                /\ req[r].resp.loc.query = req[r].ops
                /\ Has(store, env.transformed, ImageOpsKey(req[r].path, req[r].ops))
\* C27: in a 200 response of an image handler the Content-Type is that of
\* the format the body is encoded in.
C27_ContentTypeIsBodyFormat ==
    \A r \in Reqs :
        (deployed \in ImageHandlers /\ Done(r) /\ req[r].resp.status = 200)
        => req[r].resp.ctype = "image/" \o req[r].resp.body.fmt
\* C28: the response a handler returns is of exactly one kind: inline (200,
\* a body, no Location), redirect (302, a Location, no body) or error (4xx
\* or 5xx, a message, neither body nor Location).
C28_OneOutcome ==
    \A r \in Reqs :
        (Done(r) /\ req[r].resp.msg # "exception")
        => LET resp == req[r].resp
               inline == /\ resp.status = 200 /\ resp.body # NoBlob
                         /\ resp.loc = NoLoc /\ resp.msg = "none"
               redirect == /\ resp.status = 302 /\ resp.loc # NoLoc
                           /\ resp.body = NoBlob /\ resp.msg = "none"
               error == /\ resp.status \in 400 .. 599 /\ resp.msg # "none"
                        /\ resp.body = NoBlob /\ resp.loc = NoLoc
           IN  inline \/ redirect \/ error

\* the redirecting video handler has answered one request with a redirect
\* and another with an error
C28_Witness ==
    /\ Done("r1") /\ req["r1"].resp.status = 302 /\ req["r1"].resp.loc # NoLoc
    /\ Done("r2") /\ req["r2"].resp.status = 500
\* C29: a request that called the store has an object path that is not
\* empty and has no segment '..' and no empty segment.
C29_NoPathTraversal ==
    \A r \in Reqs :
        Touched(r) =>
            /\ Len(req[r].path) > 0
            /\ \A i \in 1 .. Len(req[r].path) : req[r].path[i] \notin {"", ".."}
\* C30: in the project-routed video handler of index.mjs, thumbnails of one
\* source object have one key: two thumbnails whose project names resolve
\* to the same source bucket and whose video paths are the same are stored
\* under the same key.
C30_OneKeyPerSourceObject ==
    \A o1, o2 \in store :
        (/\ deployed = "VideoProject"
         /\ o1.bucket = THUMBNAIL_BUCKET
         /\ o2.bucket = THUMBNAIL_BUCKET
         /\ GetProjectBucket(o1.key.segs[1]) = GetProjectBucket(o2.key.segs[1])
         /\ Tail(o1.key.segs) = Tail(o2.key.segs))
        => o1.key = o2.key
====
